---------------------------- MODULE Spec2Model ----------------------------
(***************************************************************************)
(* A model of photutils.datasets: the model-image renderer                 *)
(* (make_model_sources_image), its Gaussian and PRF wrappers, the PSF      *)
(* test-data builder (make_test_psf_data) and the image-container builder  *)
(* (make_imagehdu).                                                        *)
(*                                                                         *)
(* Numbers.  The code computes in floating point; the model computes in    *)
(* exact arithmetic.  A quantity is a rational multiple of a power of      *)
(* 2*pi, [n, d, p] = (n / d) * (2*pi)^p in lowest terms, so that the       *)
(* flux <-> amplitude conversions of the wrappers are computed, not        *)
(* assumed.  A pixel is a sum of quantities: one rational per power of     *)
(* 2*pi.  Pixel coordinates handed to a model are in quarter pixels, so    *)
(* that the sub-pixel grid of an oversampled evaluation is representable.  *)
(***************************************************************************)
EXTENDS Integers, Sequences, FiniteSets, TLC

VARIABLES
    pc,             \* position of the running call of the image functions
    fn,             \* the entry point called: "render", "gauss", "prf"
    callerTable,    \* the caller's source table object
    callerTable0,   \* its columns and values when the call began
    callerModel0,   \* the caller's model parameters when the call began
    shape,          \* requested image shape <<ny, nx>>
    oversample,     \* oversampling factor handed to the renderer
    model,          \* the model object the renderer works on
    table,          \* the renderer's source_table (the caller's, or a copy)
    params_to_set,  \* table columns that are model parameter names, in order
    init_params,    \* what line 103 saved for each of them
    row,            \* index of the row the loop is at (1-based)
    image,          \* the image buffer
    exc,            \* exception in flight: "none", "setattr", "evaluate"
    result          \* the value returned: "none" or the image

imgVars == <<pc, fn, callerTable, callerTable0, callerModel0, shape,
             oversample, model, table, params_to_set, init_params, row,
             image, exc, result>>

VARIABLES
    ppc,            \* position of the running call of make_test_psf_data
    args,           \* its arguments: shape, psf_shape, nsources,
                    \* min_separation, border_size, flux_range
    psf_model,      \* the caller's PSF model object
    psf_model0,     \* its parameters when the call began
    psf_shape,      \* the window shape <<ny, nx>> in use
    warned,         \* whether _define_psf_shape warned
    hshape,         \* the border <<ny, nx>>
    xrange,         \* valid region of the centres on x, <<low, high>>
    yrange,         \* and on y
    xycoords,       \* what make_random_xycoords returned
    gen_calls,      \* how many times it was called
    sources,        \* the sources table
    src,            \* index of the source the loop is at (1-based)
    data,           \* the image buffer of make_test_psf_data
    perr,           \* the exception that ended the call, or "none"
    presult         \* the value returned: "none" or [data, sources]

psfVars == <<ppc, args, psf_model, psf_model0, psf_shape, warned, hshape,
             xrange, yrange, xycoords, gen_calls, sources, src, data, perr,
             presult>>

VARIABLES
    hpc,            \* position of the running call of make_imagehdu
    hdu_data,       \* its data argument, as an array
    hdu_wcs,        \* its wcs argument, or None
    header,         \* the header built: unset, None or a header
    hdu,            \* the container returned, or None
    herr            \* the exception that ended the call, or "none"

hduVars == <<hpc, hdu_data, hdu_wcs, header, hdu, herr>>

VARIABLES
    wpc,            \* position of a comparison of make_wcs with make_gwcs
    w_shape,        \* the shape handed to both builders
    w_galactic,     \* the frame choice handed to both builders
    w_wcs,          \* what make_wcs returned, or None
    w_gwcs,         \* what make_gwcs returned, or None
    w_pixel,        \* a 0-indexed pixel position <<x, y>>
    w_sky           \* its sky coordinates under w_wcs and under w_gwcs

wcsVars == <<wpc, w_shape, w_galactic, w_wcs, w_gwcs, w_pixel, w_sky>>

vars == <<imgVars, psfVars, hduVars, wcsVars>>

---------------------------------------------------------------------------
(* Bounds of the model *)

\* most rows in a source table
MaxRows == 2

---------------------------------------------------------------------------
(* Exact arithmetic *)

Abs(a) == IF a < 0 THEN -a ELSE a

RECURSIVE GCD(_, _)
GCD(a, b) == IF b = 0 THEN a ELSE GCD(b, a % b)

\* the quantity (n / d) * (2*pi)^p in lowest terms; zero has one form
QNorm(n, d, p) ==
    IF n = 0 THEN [n |-> 0, d |-> 1, p |-> 0]
    ELSE LET g == GCD(Abs(n), d)
         IN  [n |-> n \div g, d |-> d \div g, p |-> p]

\* the quantity of an integer
Q(k) == QNorm(k, 1, 0)

QMulInt(q, k) == QNorm(q.n * k, q.d, q.p)
QDivInt(q, k) == QNorm(q.n, q.d * k, q.p)
QMulTwoPi(q) == QNorm(q.n, q.d, q.p + 1)
QDivTwoPi(q) == QNorm(q.n, q.d, q.p - 1)

\* a table cell that is not a number (setattr on a model parameter raises)
Bad == [n |-> 0, d |-> 0, p |-> 0]

\* powers of 2*pi a pixel can hold
PExp == {-1, 0, 1}

ZeroPix == [p \in PExp |-> <<0, 1>>]

FracAdd(a, b) ==
    LET n == a[1] * b[2] + b[1] * a[2]
        d == a[2] * b[2]
        g == GCD(Abs(n), d)
    IN  IF n = 0 THEN <<0, 1>> ELSE <<n \div g, d \div g>>

\* pixel + quantity
PixAdd(pix, q) ==
    IF q.n = 0 THEN pix
    ELSE [pix EXCEPT ![q.p] = FracAdd(@, <<q.n, q.d>>)]

Range(s) == {s[i] : i \in DOMAIN s}


QMul(a, b) == QNorm(a.n * b.n, a.d * b.d, a.p + b.p)

\* a / b for b > 0
QDiv(a, b) == QNorm(a.n * b.d, a.d * b.n, a.p - b.p)

TwoPi == [n |-> 1, d |-> 1, p |-> 1]

---------------------------------------------------------------------------
(* Model objects (astropy.modeling, photutils.psf): what the image        *)
(* functions use of them.  A model object is [kind, view, par]: its class, *)
(* whether reading a parameter attribute yields the live Parameter object  *)
(* of the model (astropy.modeling) or a plain number, and its parameter    *)
(* values.                                                                 *)

ParamNames(kind) ==
    IF kind = "gauss"
    THEN {"amplitude", "x_mean", "y_mean", "x_stddev", "y_stddev"}
    ELSE {"flux", "x_0", "y_0", "sigma"}

\* models.Gaussian2D(x_stddev=1, y_stddev=1)
Gaussian2D ==
    [kind |-> "gauss", view |-> TRUE,
     par |-> [amplitude |-> Q(1), x_mean |-> Q(0), y_mean |-> Q(0),
              x_stddev |-> Q(1), y_stddev |-> Q(1)]]

\* IntegratedGaussianPRF(sigma=1)
IntegratedGaussianPRF ==
    [kind |-> "prf", view |-> TRUE,
     par |-> [flux |-> Q(1), x_0 |-> Q(0), y_0 |-> Q(0), sigma |-> Q(1)]]

\* the profile of a source of half-widths sx, sy at offset (dx4, dy4), in
\* quarter pixels, from its centre: an integer stand-in for the profile
\* (exp, erf) that the modeling library computes
Foot(dx4, dy4, sx, sy) ==
    IF Abs(dx4) <= 4 * sx /\ Abs(dy4) <= 4 * sy
    THEN (4 * sx + 1 - Abs(dx4)) * (4 * sy + 1 - Abs(dy4))
    ELSE 0

ModelFoot(kind, par, X4, Y4) ==
    IF kind = "gauss"
    THEN Foot(X4 - 4 * par.x_mean.n, Y4 - 4 * par.y_mean.n,
              par.x_stddev.n, par.y_stddev.n)
    ELSE Foot(X4 - 4 * par.x_0.n, Y4 - 4 * par.y_0.n,
              par.sigma.n, par.sigma.n)

Scale(kind, par) == IF kind = "gauss" THEN par.amplitude ELSE par.flux

\* model(x, y) with the parameter values par, at quarter-pixel coordinates
Eval(kind, par, X4, Y4) == QMulInt(Scale(kind, par), ModelFoot(kind, par, X4, Y4))

\* discretize_model(..., mode='oversample', factor=f) at pixel (x, y): the
\* mean of the model over the f x f grid of sub-pixel centres (f = 2: the
\* centres are a quarter pixel off the pixel centre on each axis)
DiscretizeOversample(kind, par, x, y, f) ==
    LET off == IF f = 1 THEN {0} ELSE {-1, 1}
        RECURSIVE Sum(_)
        Sum(S) == IF S = {} THEN 0
                  ELSE LET o == CHOOSE o \in S : TRUE
                       IN  ModelFoot(kind, par, 4 * x + o[1], 4 * y + o[2])
                           + Sum(S \ {o})
    IN  QDivInt(QMulInt(Scale(kind, par), Sum(off \X off)), f * f)

---------------------------------------------------------------------------
(* Source tables: [colnames, rows], rows a sequence of column -> cell *)

ColDomain(c) ==
    CASE c = "amplitude" -> {Q(2), Q(3)}
      [] c = "flux" -> {Q(6), Q(8)}
      [] c \in {"x_mean", "x_0"} -> {Q(0), Q(1)}
      [] c \in {"x_stddev", "y_stddev", "sigma"} -> {Q(1), Q(2)}
      [] OTHER -> {Q(7)}

CellDomain(c, bad) ==
    ColDomain(c) \cup (IF bad /\ c \in {"amplitude", "flux"} THEN {Bad} ELSE {})

RECURSIVE RowSet(_, _)
RowSet(cols, bad) ==
    IF cols = <<>> THEN {<<>>}
    ELSE {(Head(cols) :> v) @@ r :
             v \in CellDomain(Head(cols), bad), r \in RowSet(Tail(cols), bad)}

Tables(cols, bad) ==
    {[colnames |-> cols, rows |-> rs] :
        rs \in UNION {[1..n -> RowSet(cols, bad)] : n \in 0..MaxRows}}

\* column lists of the tables handed straight to the renderer
RenderColumnLists ==
    {<<"amplitude">>, <<"flux">>, <<"amplitude", "x_mean">>,
     <<"id", "flux", "x_0">>, <<"id">>}

\* column lists of the tables handed to make_gaussian_sources_image
GaussColumnLists ==
    {<<"flux">>, <<"flux", "x_stddev">>, <<"y_stddev", "flux", "x_mean">>,
     <<"flux", "amplitude">>, <<"amplitude", "x_stddev">>,
     <<"amplitude", "flux", "x_stddev", "y_stddev">>, <<"x_mean">>}

\* column lists of the tables handed to make_gaussian_prf_sources_image
PrfColumnLists ==
    {<<"amplitude">>, <<"amplitude", "sigma">>, <<"flux", "amplitude">>,
     <<"flux", "sigma", "x_0">>, <<"amplitude", "flux", "sigma">>, <<"x_0">>}

\* the caller's models of a direct call of the renderer
CallerModels ==
    {[kind |-> "gauss", view |-> v,
      par |-> [amplitude |-> Q(5), x_mean |-> Q(1), y_mean |-> Q(0),
               x_stddev |-> Q(1), y_stddev |-> Q(2)]] : v \in BOOLEAN}
    \cup
    {[kind |-> "prf", view |-> v,
      par |-> [flux |-> Q(4), x_0 |-> Q(0), y_0 |-> Q(1), sigma |-> Q(1)]] :
        v \in BOOLEAN}

Shapes == {<<1, 2>>, <<2, 2>>}
Oversamples == {1, 2}

Pixels(sh) == (0..(sh[1] - 1)) \X (0..(sh[2] - 1))

---------------------------------------------------------------------------
(* make_model_sources_image *)

\* lines 94-97: the table columns that are model parameter names
ParamsToSet(colnames, kind) ==
    LET IsParam(c) == c \in ParamNames(kind)
    IN  SelectSeq(colnames, IsParam)

\* getattr(model, param): the live Parameter object of an astropy model
\* (ref: it reads as whatever the model's value is when it is used), or the
\* number itself
GetAttr(m, param) == [ref |-> m.view, val |-> m.par[param]]

\* line 103
SaveInitParams(m, ps) == [q \in Range(ps) |-> GetAttr(m, q)]

\* the number setattr gets from a saved value
ValueOf(m, param, saved) == IF saved.ref THEN m.par[param] ELSE saved.val

\* lines 107-108: setattr in column order; the first cell that is not a
\* number raises, the parameters before it stay set
RECURSIVE SetParams(_, _, _, _)
SetParams(par, source, ps, k) ==
    IF k > Len(ps) THEN [par |-> par, ok |-> TRUE]
    ELSE IF source[ps[k]] = Bad THEN [par |-> par, ok |-> FALSE]
    ELSE SetParams([par EXCEPT ![ps[k]] = source[ps[k]]], source, ps, k + 1)

\* the value the model adds to pixel (y, x): lines 110-115
PixelValue(m, x, y, os) ==
    IF os = 1 THEN Eval(m.kind, m.par, 4 * x, 4 * y)
    ELSE DiscretizeOversample(m.kind, m.par, x, y, os)

\* image = ... instead of image += ...
AccumulateOverwrites(img, m, sh, os) ==
    [px \in Pixels(sh) |-> PixAdd(ZeroPix, PixelValue(m, px[2], px[1], os))]

\* image += ...
Accumulate(img, m, sh, os) ==
    [px \in Pixels(sh) |-> PixAdd(img[px], PixelValue(m, px[2], px[1], os))]

\* lines 117-118
RestoreParams(m, saved) ==
    [m EXCEPT !.par = [q \in DOMAIN m.par |->
                         IF q \in DOMAIN saved THEN ValueOf(m, q, saved[q])
                         ELSE m.par[q]]]

\* a direct call of make_model_sources_image(shape, model, source_table,
\* oversample)
CallRender ==
    /\ pc = "idle"
    /\ \E m \in CallerModels, cols \in RenderColumnLists,
          sh \in Shapes, os \in Oversamples :
         \E t \in Tables(cols, TRUE) :
            /\ fn' = "render"
            /\ model' = m
            /\ callerModel0' = m.par
            /\ callerTable' = t
            /\ callerTable0' = t
            /\ table' = t
            /\ shape' = sh
            /\ oversample' = os
    /\ pc' = "enter"
    /\ UNCHANGED <<psfVars, hduVars, wcsVars>>
    /\ UNCHANGED <<params_to_set, init_params, row, image, exc, result>>

\* lines 91-103
Prepare ==
    /\ pc = "enter"
    /\ image' = [px \in Pixels(shape) |-> ZeroPix]
    /\ params_to_set' = ParamsToSet(table.colnames, model.kind)
    /\ init_params' = SaveInitParams(model, params_to_set')
    /\ row' = 1
    /\ pc' = "loop"
    /\ UNCHANGED <<psfVars, hduVars, wcsVars>>
    /\ UNCHANGED <<callerTable0>>
    /\ UNCHANGED <<fn, callerTable, callerModel0, shape, oversample, model,
                   table, exc, result>>

\* lines 106-108: the next row's parameters are set, or a setattr raises
SetRowParams ==
    /\ pc = "loop"
    /\ row <= Len(table.rows)
    /\ LET s == SetParams(model.par, table.rows[row], params_to_set, 1)
       IN  /\ model' = [model EXCEPT !.par = s.par]
           /\ pc' = IF s.ok THEN "eval" ELSE "finally"
           /\ exc' = IF s.ok THEN exc ELSE "setattr"
    /\ UNCHANGED <<psfVars, hduVars, wcsVars>>
    /\ UNCHANGED <<callerTable0>>
    /\ UNCHANGED <<fn, callerTable, callerModel0, shape, oversample, table,
                   params_to_set, init_params, row, image, result>>

\* lines 110-115
Evaluate ==
    /\ pc = "eval"
    /\ image' = Accumulate(image, model, shape, oversample)
    /\ row' = row + 1
    /\ pc' = "loop"
    /\ UNCHANGED <<psfVars, hduVars, wcsVars>>
    /\ UNCHANGED <<callerTable0>>
    /\ UNCHANGED <<fn, callerTable, callerModel0, shape, oversample, model,
                   table, params_to_set, init_params, exc, result>>

\* lines 110-115: the model's evaluation raises; the image is not touched
EvaluateRaises ==
    /\ pc = "eval"
    /\ exc' = "evaluate"
    /\ pc' = "finally"
    /\ UNCHANGED <<psfVars, hduVars, wcsVars>>
    /\ UNCHANGED <<callerTable0>>
    /\ UNCHANGED <<fn, callerTable, callerModel0, shape, oversample, model,
                   table, params_to_set, init_params, row, image, result>>

\* line 106: the table is exhausted
LoopDone ==
    /\ pc = "loop"
    /\ row > Len(table.rows)
    /\ pc' = "finally"
    /\ UNCHANGED <<psfVars, hduVars, wcsVars>>
    /\ UNCHANGED <<callerTable0>>
    /\ UNCHANGED <<fn, callerTable, callerModel0, shape, oversample, model,
                   table, params_to_set, init_params, row, image, exc, result>>

\* lines 116-118: the finally block, then the exception (if any) goes on
Restore ==
    /\ pc = "finally"
    /\ model' = RestoreParams(model, init_params)
    /\ pc' = IF exc = "none" THEN "return" ELSE "raised"
    /\ UNCHANGED <<psfVars, hduVars, wcsVars>>
    /\ UNCHANGED <<callerTable0>>
    /\ UNCHANGED <<fn, callerTable, callerModel0, shape, oversample, table,
                   params_to_set, init_params, row, image, exc, result>>

\* line 120 (and lines 216, 297: the wrappers return the renderer's image)
Return ==
    /\ pc = "return"
    /\ result' = image
    /\ pc' = "returned"
    /\ UNCHANGED <<psfVars, hduVars, wcsVars>>
    /\ UNCHANGED <<callerTable0>>
    /\ UNCHANGED <<fn, callerTable, callerModel0, shape, oversample, model,
                   table, params_to_set, init_params, row, image, exc>>

---------------------------------------------------------------------------
(* make_gaussian_sources_image, make_gaussian_prf_sources_image *)

HasCol(t, c) == c \in Range(t.colnames)

\* source_table[c] = vals: a new column goes last, an existing one is
\* overwritten
SetColumn(t, c, vals) ==
    [colnames |-> IF HasCol(t, c) THEN t.colnames ELSE Append(t.colnames, c),
     rows |-> [i \in DOMAIN t.rows |-> (c :> vals[i]) @@ t.rows[i]]]

\* lines 201-208, 286-289: the column's value in row i, or the model's
\* default
ColumnOr(t, c, default, i) == IF HasCol(t, c) THEN t.rows[i][c] ELSE default

\* the conversion made whenever there is a flux column
GaussTableFluxWins(t) ==
    IF HasCol(t, "flux")
    THEN [caller |-> t,
          local |-> SetColumn(t, "amplitude",
                      [i \in DOMAIN t.rows |->
                         QDiv(t.rows[i].flux,
                              QMul(QMul(TwoPi,
                                        ColumnOr(t, "x_stddev", Q(1), i)),
                                   ColumnOr(t, "y_stddev", Q(1), i)))])]
    ELSE [caller |-> t, local |-> t]

\* the conversion made on the caller's table itself, without the copy
GaussTableInPlace(t) ==
    LET converted == SetColumn(t, "amplitude",
                        [i \in DOMAIN t.rows |->
                           QDiv(t.rows[i].flux,
                                QMul(QMul(TwoPi,
                                          ColumnOr(t, "x_stddev", Q(1), i)),
                                     ColumnOr(t, "y_stddev", Q(1), i)))])
    IN  IF HasCol(t, "flux") /\ ~HasCol(t, "amplitude")
        THEN [caller |-> converted, local |-> converted]
        ELSE [caller |-> t, local |-> t]

\* lines 199-214: the caller's table object afterwards, and the table
\* handed to the renderer
GaussTable(t) ==
    LET m == Gaussian2D
        xstd(i) == ColumnOr(t, "x_stddev", m.par.x_stddev, i)
        ystd(i) == ColumnOr(t, "y_stddev", m.par.y_stddev, i)
    IN  IF HasCol(t, "flux") /\ ~HasCol(t, "amplitude")
        THEN [caller |-> t,
              local |-> SetColumn(t, "amplitude",
                          [i \in DOMAIN t.rows |->
                             QDiv(t.rows[i].flux,
                                  QMul(QMul(TwoPi, xstd(i)), ystd(i)))])]
        ELSE [caller |-> t, local |-> t]

\* the conversion with sigma once instead of sigma squared
PrfTableSigmaOnce(t) ==
    IF ~HasCol(t, "flux") /\ HasCol(t, "amplitude")
    THEN [caller |-> t,
          local |-> SetColumn(t, "flux",
                      [i \in DOMAIN t.rows |->
                         QMul(t.rows[i].amplitude,
                              QMul(TwoPi, ColumnOr(t, "sigma", Q(1), i)))])]
    ELSE [caller |-> t, local |-> t]

\* lines 284-295
PrfTable(t) ==
    LET m == IntegratedGaussianPRF
        sigma(i) == ColumnOr(t, "sigma", m.par.sigma, i)
    IN  IF ~HasCol(t, "flux") /\ HasCol(t, "amplitude")
        THEN [caller |-> t,
              local |-> SetColumn(t, "flux",
                          [i \in DOMAIN t.rows |->
                             QMul(t.rows[i].amplitude,
                                  QMul(QMul(TwoPi, sigma(i)), sigma(i)))])]
        ELSE [caller |-> t, local |-> t]

\* make_gaussian_sources_image(shape, source_table, oversample) up to its
\* call of the renderer (lines 199-217)
CallGaussian ==
    /\ pc = "idle"
    /\ \E cols \in GaussColumnLists, sh \in Shapes, os \in Oversamples :
         \E t \in Tables(cols, FALSE) :
            /\ fn' = "gauss"
            /\ model' = Gaussian2D
            /\ callerModel0' = Gaussian2D.par
            /\ callerTable' = GaussTable(t).caller
            /\ callerTable0' = t
            /\ table' = GaussTable(t).local
            /\ shape' = sh
            /\ oversample' = os
    /\ pc' = "enter"
    /\ UNCHANGED <<psfVars, hduVars, wcsVars>>
    /\ UNCHANGED <<params_to_set, init_params, row, image, exc, result>>

\* make_gaussian_prf_sources_image(shape, source_table) up to its call of
\* the renderer (lines 284-298)
CallPrf ==
    /\ pc = "idle"
    /\ \E cols \in PrfColumnLists, sh \in Shapes :
         \E t \in Tables(cols, FALSE) :
            /\ fn' = "prf"
            /\ model' = IntegratedGaussianPRF
            /\ callerModel0' = IntegratedGaussianPRF.par
            /\ callerTable' = PrfTable(t).caller
            /\ callerTable0' = t
            /\ table' = PrfTable(t).local
            /\ shape' = sh
            /\ oversample' = 1
    /\ pc' = "enter"
    /\ UNCHANGED <<psfVars, hduVars, wcsVars>>
    /\ UNCHANGED <<params_to_set, init_params, row, image, exc, result>>

---------------------------------------------------------------------------
(* make_test_psf_data.  Centre coordinates are reals in the code; the     *)
(* model keeps them in units of 1/Res pixel.                               *)

\* most sources asked for
MaxSources == 2

\* sub-pixel positions per pixel
Res == 4

\* floor and ceiling of a / b, b > 0
FloorDiv(a, b) == a \div b
CeilDiv(a, b) == -((-a) \div b)

Min(a, b) == IF a < b THEN a ELSE b
Max(a, b) == IF a > b THEN a ELSE b

\* as_pair('oversampling', v): a scalar stands for both axes
AsPair(v) == IF Len(v) = 1 THEN <<v[1], v[1]>> ELSE v

\* Python's psf_shape > model_shape on two tuples: the order of the first
\* axis on which they differ
TupleGreater(a, b) == a[1] > b[1] \/ (a[1] = b[1] /\ a[2] > b[2])

\* lines 441-452: the model's data shape over its oversampling
DataSupport(m) ==
    LET model_shape == IF Len(m.data_shape) = 3 THEN SubSeq(m.data_shape, 2, 3)
                       ELSE m.data_shape
        oversampling == AsPair(IF m.has_oversampling THEN m.oversampling
                               ELSE <<1>>)
    IN  <<FloorDiv(model_shape[1], oversampling[1]),
          FloorDiv(model_shape[2], oversampling[2])>>

\* lines 462-466: the bounding box bounds are kept in half pixels
BboxSupport(m) ==
    LET ixmin == FloorDiv(m.bbox.xlo2 + 1, 2)
        ixmax == CeilDiv(m.bbox.xhi2 + 1, 2)
        iymin == FloorDiv(m.bbox.ylo2 + 1, 2)
        iymax == CeilDiv(m.bbox.yhi2 + 1, 2)
    IN  <<iymax - iymin, ixmax - ixmin>>

\* lines 454-459, 468-472
ShrinkTo(model_shape, req) ==
    IF TupleGreater(req, model_shape)
    THEN [shape |-> <<Min(model_shape[1], req[1]), Min(model_shape[2], req[2])>>,
          warned |-> TRUE]
    ELSE [shape |-> req, warned |-> FALSE]

\* _define_psf_shape(psf_model, psf_shape): the shape returned, and whether
\* it warned
DefinePsfShape(m, req) ==
    IF m.has_data THEN ShrinkTo(DataSupport(m), req)
    ELSE IF m.has_bbox THEN ShrinkTo(BboxSupport(m), req)
    ELSE [shape |-> req, warned |-> FALSE]

\* lines 537-540
HalfShape(ps, border_size) ==
    IF border_size = <<>>
    THEN <<FloorDiv(ps[1] - 1, 2), FloorDiv(ps[2] - 1, 2)>>
    ELSE border_size

\* rng.uniform(low, high): the values in [low, high) (low itself when the
\* interval is empty), in units of 1/Res
Uniform(low, high) ==
    IF low = high THEN {Res * low} ELSE (Res * low)..(Res * high - 1)

\* whether two centres are at least sep pixels apart
Separated(a, b, sep) ==
    (a[1] - b[1]) * (a[1] - b[1]) + (a[2] - b[2]) * (a[2] - b[2])
        >= (sep * Res) * (sep * Res)

\* make_random_xycoords(size, x_range, y_range, min_separation, seed): the
\* arrays <<x, y>> it can return: at most size centres in the region, every
\* two of them min_separation apart, and size of them when min_separation
\* is 0
RandomXYCoords(size, xr, yr, sep) ==
    LET pts == Uniform(xr[1], xr[2]) \X Uniform(yr[1], yr[2])
    IN  {xy \in UNION {[1..m -> pts] : m \in 1..size} :
            /\ sep = 0 => Len(xy) = size
            /\ \A i, j \in DOMAIN xy : i < j => Separated(xy[i], xy[j], sep)}

\* rng.uniform(flux_range[0], flux_range[1], nsources)
FluxDraws(flux_range, n) == [1..n -> flux_range[1]..(flux_range[2] - 1)]

\* flux[:len(x)]
Truncate(flux, n) == SubSeq(flux, 1, Min(n, Len(flux)))

Column(xy, k) == [i \in DOMAIN xy |-> xy[i][k]]

\* lines 553-556: a QTable of three columns; a column of another length
\* than the first is refused
BuildSources(x, y, flux) ==
    IF Len(y) = Len(x) /\ Len(flux) = Len(x)
    THEN [ok |-> TRUE,
          table |-> [colnames |-> <<"x_0", "y_0", "flux">>,
                     cols |-> <<x, y, flux>>]]
    ELSE [ok |-> FALSE, table |-> [colnames |-> <<>>, cols |-> <<>>]]

\* astropy.nddata.overlap_slices(shape, psf_shape, (ycen, xcen),
\* mode='trim') on one axis: the slice <<start, stop>> of the image, or no
\* overlap
AxisOverlap(large, small, pos) ==
    LET imin == CeilDiv(2 * pos - small * Res, 2 * Res)
        imax == CeilDiv(2 * pos + small * Res, 2 * Res)
    IN  IF imax <= 0 \/ imin >= large THEN [ok |-> FALSE, lo |-> 0, hi |-> 0]
        ELSE [ok |-> TRUE, lo |-> Max(0, imin), hi |-> Min(large, imax)]

\* the PSF model at pixel (x, y), its centre in units of 1/Res: an integer
\* stand-in for the profile the model computes
PsfEval(par, x, y) ==
    LET tent(d) == Max(0, 3 * Res - Abs(d))
    IN  par.flux * tent(Res * x - par.x_0) * tent(Res * y - par.y_0)

\* the assignment data[slc_lg] = psf_model(xx, yy)
AddSourceOverwrites(img, par, sy, sx) ==
    [px \in DOMAIN img |->
        IF px[1] \in sy.lo..(sy.hi - 1) /\ px[2] \in sx.lo..(sx.hi - 1)
        THEN PsfEval(par, px[2], px[1])
        ELSE img[px]]

\* lines 569-571: data[slc_lg] += psf_model(xx, yy)
AddSource(img, par, sy, sx) ==
    [px \in DOMAIN img |->
        IF px[1] \in sy.lo..(sy.hi - 1) /\ px[2] \in sx.lo..(sx.hi - 1)
        THEN img[px] + PsfEval(par, px[2], px[1])
        ELSE img[px]]

\* the PSF models of the calls: no data and no bounding box; 2D data
\* oversampled by 2; a 3D grid of PSFs without an oversampling attribute; a
\* bounding box of 1 by 3 pixels
PsfPar0 == [x_0 |-> 0, y_0 |-> 0, flux |-> 1]

PlainPsf ==
    [has_data |-> FALSE, data_shape |-> <<>>, has_oversampling |-> FALSE,
     oversampling |-> <<1>>, has_bbox |-> FALSE,
     bbox |-> [xlo2 |-> 0, xhi2 |-> 0, ylo2 |-> 0, yhi2 |-> 0], par |-> PsfPar0]

ImagePsf ==
    [PlainPsf EXCEPT !.has_data = TRUE, !.data_shape = <<4, 5>>,
                     !.has_oversampling = TRUE, !.oversampling = <<2>>]

GriddedPsf ==
    [PlainPsf EXCEPT !.has_data = TRUE, !.data_shape = <<5, 3, 3>>]

BoxPsf ==
    [PlainPsf EXCEPT !.has_bbox = TRUE,
                     !.bbox = [xlo2 |-> -3, xhi2 |-> 3, ylo2 |-> -1, yhi2 |-> 1]]

\* the (model, psf_shape) pairs of the calls
PsfRequests ==
    {<<PlainPsf, <<1, 1>>>>, <<PlainPsf, <<2, 3>>>>,
     <<ImagePsf, <<3, 3>>>>, <<ImagePsf, <<1, 3>>>>, <<ImagePsf, <<2, 1>>>>,
     <<GriddedPsf, <<3, 3>>>>, <<GriddedPsf, <<4, 2>>>>,
     <<BoxPsf, <<1, 3>>>>, <<BoxPsf, <<2, 2>>>>}

PsfImageShape == <<2, 2>>

PsfArgs ==
    {[shape |-> PsfImageShape, psf_shape |-> r[2], nsources |-> n,
      min_separation |-> sep, border_size |-> b, flux_range |-> <<2, 4>>] :
        r \in PsfRequests, n \in 1..MaxSources, sep \in {0, 9},
        b \in {<<>>, <<0, 1>>}}

\* make_test_psf_data(shape, psf_model, psf_shape, nsources, ...) is called
PsfCall ==
    /\ ppc = "idle"
    /\ \E r \in PsfRequests :
         /\ psf_model' = r[1]
         /\ psf_model0' = r[1].par
         /\ \E a \in PsfArgs : a.psf_shape = r[2] /\ args' = a
    /\ ppc' = "called"
    /\ UNCHANGED <<psf_shape, warned, hshape, xrange, yrange, xycoords,
                   gen_calls, sources, src, data, perr, presult>>
    /\ UNCHANGED <<imgVars, hduVars, wcsVars>>

\* line 535
DefineShape ==
    /\ ppc = "called"
    /\ LET r == DefinePsfShape(psf_model, args.psf_shape)
       IN  psf_shape' = r.shape /\ warned' = r.warned
    /\ ppc' = "shaped"
    /\ UNCHANGED <<args, psf_model, psf_model0, hshape, xrange, yrange,
                   xycoords, gen_calls, sources, src, data, perr, presult>>
    /\ UNCHANGED <<imgVars, hduVars, wcsVars>>

\* lines 537-542
Border ==
    /\ ppc = "shaped"
    /\ hshape' = HalfShape(psf_shape, args.border_size)
    /\ xrange' = <<hshape'[2], args.shape[2] - hshape'[2]>>
    /\ yrange' = <<hshape'[1], args.shape[1] - hshape'[1]>>
    /\ ppc' = "ranged"
    /\ UNCHANGED <<args, psf_model, psf_model0, psf_shape, warned, xycoords,
                   gen_calls, sources, src, data, perr, presult>>
    /\ UNCHANGED <<imgVars, hduVars, wcsVars>>

\* lines 544-547
Generate ==
    /\ ppc = "ranged"
    /\ xycoords' \in RandomXYCoords(args.nsources, xrange, yrange,
                                    args.min_separation)
    /\ gen_calls' = gen_calls + 1
    /\ ppc' = "generated"
    /\ UNCHANGED <<args, psf_model, psf_model0, psf_shape, warned, hshape,
                   xrange, yrange, sources, src, data, perr, presult>>
    /\ UNCHANGED <<imgVars, hduVars, wcsVars>>

\* lines 549-563
BuildTable ==
    /\ ppc = "generated"
    /\ \E flux \in FluxDraws(args.flux_range, args.nsources) :
         LET x == Column(xycoords, 1)
             y == Column(xycoords, 2)
             b == BuildSources(x, y, Truncate(flux, Len(x)))
         IN  /\ sources' = b.table
             /\ ppc' = IF b.ok THEN "placing" ELSE "raised"
             /\ perr' = IF b.ok THEN perr ELSE "ValueError"
    /\ src' = 1
    /\ data' = [px \in Pixels(args.shape) |-> 0]
    /\ UNCHANGED <<args, psf_model, psf_model0, psf_shape, warned, hshape,
                   xrange, yrange, xycoords, gen_calls, presult>>
    /\ UNCHANGED <<imgVars, hduVars, wcsVars>>

\* lines 564-571: one source is placed, or overlap_slices raises
PlaceSource ==
    /\ ppc = "placing"
    /\ src <= Len(sources.cols[1])
    /\ LET par == [x_0 |-> sources.cols[1][src], y_0 |-> sources.cols[2][src],
                   flux |-> sources.cols[3][src]]
           sy == AxisOverlap(args.shape[1], psf_shape[1], par.y_0)
           sx == AxisOverlap(args.shape[2], psf_shape[2], par.x_0)
       IN  /\ psf_model' = [psf_model EXCEPT !.par = par]
           /\ IF sy.ok /\ sx.ok
              THEN /\ data' = AddSource(data, par, sy, sx)
                   /\ src' = src + 1
                   /\ UNCHANGED <<ppc, perr>>
              ELSE /\ ppc' = "raised"
                   /\ perr' = "NoOverlapError"
                   /\ UNCHANGED <<data, src>>
    /\ UNCHANGED <<args, psf_model0, psf_shape, warned, hshape, xrange,
                   yrange, xycoords, gen_calls, sources, presult>>
    /\ UNCHANGED <<imgVars, hduVars, wcsVars>>

\* lines 573-577
Finish ==
    /\ ppc = "placing"
    /\ src > Len(sources.cols[1])
    /\ sources' = [sources EXCEPT !.colnames = <<"x", "y", "flux">>]
    /\ presult' = [data |-> data, sources |-> sources']
    /\ ppc' = "done"
    /\ UNCHANGED <<args, psf_model, psf_model0, psf_shape, warned, hshape,
                   xrange, yrange, xycoords, gen_calls, src, data, perr>>
    /\ UNCHANGED <<imgVars, hduVars, wcsVars>>

---------------------------------------------------------------------------
(* make_wcs, make_imagehdu *)

\* most axes of a data array, and the longest axis
MaxNdim == 3
MaxDim == 2

\* make_wcs(shape, galactic): crpix is kept doubled, crval as the decimals
\* written in the code, the CD matrix as the expressions of its entries
MakeWcs(sh, galactic) ==
    [pixel_shape |-> sh,
     crpix2 |-> <<sh[2], sh[1]>>,
     crval |-> <<"197.8925", "-1.36555556">>,
     cunit |-> <<"deg", "deg">>,
     cd |-> << <<"-scale*cos(rho)", "scale*sin(rho)">>,
               <<"scale*sin(rho)", "scale*cos(rho)">> >>,
     radesys |-> IF galactic THEN "" ELSE "ICRS",
     ctype |-> IF galactic THEN <<"GLON-CAR", "GLAT-CAR">>
               ELSE <<"RA---TAN", "DEC--TAN">>]

\* wcs.to_header(): the header cards that state the transformation
ToHeader(wcs) ==
    [crpix2 |-> wcs.crpix2, crval |-> wcs.crval, cunit |-> wcs.cunit,
     cd |-> wcs.cd, radesys |-> wcs.radesys, ctype |-> wcs.ctype]

\* Python's None
None == [none |-> TRUE]

\* a local variable not yet assigned
Unset == [unset |-> TRUE]

\* fits.ImageHDU(data, header=header)
ImageHDU(d, hd) == [data |-> d, header |-> hd]

\* np.asanyarray(data): the arrays of the calls, by their shape
DataArrays ==
    {[shape |-> sh] : sh \in UNION {[1..n -> 1..MaxDim] : n \in 0..MaxNdim}}

WcsArguments ==
    {MakeWcs(sh, g) : sh \in {<<2, 2>>, <<2, 4>>}, g \in BOOLEAN}

Ndim(d) == Len(d.shape)

\* the check refusing only more than two axes
NotTwoDMoreOnly(d) == Ndim(d) > 2

\* line 192
NotTwoD(d) == Ndim(d) # 2

\* make_imagehdu(data, wcs) is called: line 191
HduCall ==
    /\ hpc = "idle"
    /\ hdu_data' \in DataArrays
    /\ \/ hdu_wcs' = None
       \/ hdu_wcs' \in WcsArguments
    /\ hpc' = "called"
    /\ UNCHANGED <<header, hdu, herr>>
    /\ UNCHANGED <<imgVars, psfVars, wcsVars>>

\* lines 192-193
CheckNdim ==
    /\ hpc = "called"
    /\ IF NotTwoD(hdu_data)
       THEN hpc' = "raised" /\ herr' = "ValueError"
       ELSE hpc' = "checked" /\ herr' = herr
    /\ UNCHANGED <<hdu_data, hdu_wcs, header, hdu>>
    /\ UNCHANGED <<imgVars, psfVars, wcsVars>>

\* lines 195-198
BuildHeader ==
    /\ hpc = "checked"
    /\ header' = IF hdu_wcs # None THEN ToHeader(hdu_wcs) ELSE None
    /\ hpc' = "headed"
    /\ UNCHANGED <<hdu_data, hdu_wcs, hdu, herr>>
    /\ UNCHANGED <<imgVars, psfVars, wcsVars>>

\* line 200
ReturnHdu ==
    /\ hpc = "headed"
    /\ hdu' = ImageHDU(hdu_data, header)
    /\ hpc' = "returned"
    /\ UNCHANGED <<hdu_data, hdu_wcs, header, herr>>
    /\ UNCHANGED <<imgVars, psfVars, wcsVars>>

---------------------------------------------------------------------------
(* make_wcs against make_gwcs *)

(***************************************************************************)
(* Sky coordinates are kept as terms.  Offsets from the reference pixel    *)
(* are exact (doubled, so that shape / 2 is an integer); an intermediate   *)
(* world coordinate is [c, s], standing for                                *)
(* (c * scale*cos(rho) + s * scale*sin(rho)) / 2 degrees; a projection     *)
(* and the rotation to the sky are applied as symbols, different           *)
(* projections giving different terms except at the reference point,       *)
(* which every FITS projection maps to the reference sky value.            *)
(***************************************************************************)

\* longest axis of a shape handed to the builders, and the pixel positions
\* sampled on each axis are 0..MaxPix
MaxWcsDim == 3
MaxPix == 2

WcsShapes == {<<ny, nx>> : ny \in 1..MaxWcsDim, nx \in 1..MaxWcsDim}

WcsPixels == {<<x, y>> : x \in 0..MaxPix, y \in 0..MaxPix}

\* an entry of the CD matrix, lines 66-67 and 129-130, as its multiples of
\* scale*cos(rho) and scale*sin(rho)
Coeff(entry) ==
    CASE entry = "-scale*cos(rho)" -> [c |-> -1, s |-> 0]
      [] entry = "scale*cos(rho)"  -> [c |-> 1, s |-> 0]
      [] entry = "scale*sin(rho)"  -> [c |-> 0, s |-> 1]

\* matrix times offset: row r of cd applied to the doubled offset off2
Linear(cd, off2) ==
    [r \in 1..2 |->
        [c |-> Coeff(cd[r][1]).c * off2[1] + Coeff(cd[r][2]).c * off2[2],
         s |-> Coeff(cd[r][1]).s * off2[1] + Coeff(cd[r][2]).s * off2[2]]]

\* the projection code of a ctype pair: its last three characters
ProjectionOf(ctype) ==
    CASE ctype = <<"RA---TAN", "DEC--TAN">> -> "TAN"
      [] ctype = <<"GLON-CAR", "GLAT-CAR">> -> "CAR"

\* the sky frame of a FITS WCS, from its axis types
FrameOf(ctype) ==
    CASE ctype = <<"RA---TAN", "DEC--TAN">> -> "icrs"
      [] ctype = <<"GLON-CAR", "GLAT-CAR">> -> "galactic"

\* LONPOLE where none is set: 180 degrees when the reference latitude is
\* below the native latitude of the fiducial point (90 for TAN, 0 for CAR);
\* the reference latitude of both builders is -1.36555556
DefaultLonpole(code) == 180

\* deprojection followed by the rotation from native to celestial
\* coordinates: the reference point goes to the reference sky value
Pix2Sky(code, xy, crval, lonpole) ==
    IF xy[1] = [c |-> 0, s |-> 0] /\ xy[2] = [c |-> 0, s |-> 0]
    THEN [at |-> "crval", crval |-> crval]
    ELSE [at |-> code, xy |-> xy, crval |-> crval, lonpole |-> lonpole]

\* make_gwcs(shape, galactic), lines 123-155: the shifts are kept doubled
MakeGwcs(sh, galactic) ==
    [shift2 |-> <<(-sh[2]) + 2, (-sh[1]) + 2>>,
     cd |-> << <<"-scale*cos(rho)", "scale*sin(rho)">>,
               <<"scale*sin(rho)", "scale*cos(rho)">> >>,
     projection |-> "TAN",
     crval |-> <<"197.8925", "-1.36555556">>,
     lon_pole |-> 180,
     frame |-> IF galactic THEN "galactic" ELSE "icrs"]

\* the sky coordinates of 0-indexed pixel p under an astropy WCS: crpix is
\* 1-indexed, so the offset is (p + 1) - crpix
WcsPixelToSky(w, p) ==
    LET off2 == <<2 * (p[1] + 1) - w.crpix2[1], 2 * (p[2] + 1) - w.crpix2[2]>>
        code == ProjectionOf(w.ctype)
    IN  [frame |-> FrameOf(w.ctype),
         coord |-> Pix2Sky(code, Linear(w.cd, off2), w.crval,
                           DefaultLonpole(code))]

\* the sky coordinates of 0-indexed pixel p under a gWCS: line 140,
\* shift_by_crpix | rotation | tan | celestial_rotation
GwcsPixelToSky(g, p) ==
    LET off2 == <<2 * p[1] + g.shift2[1], 2 * p[2] + g.shift2[2]>>
    IN  [frame |-> g.frame,
         coord |-> Pix2Sky(g.projection, Linear(g.cd, off2), g.crval,
                           g.lon_pole)]

\* the reference pixel of each builder, 1-indexed and doubled
WcsRefPixel2(w) == w.crpix2

GwcsRefPixel2(g) == <<2 - g.shift2[1], 2 - g.shift2[2]>>

\* both builders are about to be called with one shape and frame choice
WcsCall ==
    /\ wpc = "idle"
    /\ w_shape' \in WcsShapes
    /\ w_galactic' \in BOOLEAN
    /\ wpc' = "called"
    /\ UNCHANGED <<w_wcs, w_gwcs, w_pixel, w_sky>>
    /\ UNCHANGED <<imgVars, psfVars, hduVars>>

\* make_wcs(shape, galactic), lines 58-74
BuildWcs ==
    /\ wpc = "called"
    /\ w_wcs' = MakeWcs(w_shape, w_galactic)
    /\ wpc' = "wcs"
    /\ UNCHANGED <<w_shape, w_galactic, w_gwcs, w_pixel, w_sky>>
    /\ UNCHANGED <<imgVars, psfVars, hduVars>>

\* make_gwcs(shape, galactic), lines 120-155
BuildGwcs ==
    /\ wpc = "wcs"
    /\ w_gwcs' = MakeGwcs(w_shape, w_galactic)
    /\ wpc' = "built"
    /\ UNCHANGED <<w_shape, w_galactic, w_wcs, w_pixel, w_sky>>
    /\ UNCHANGED <<imgVars, psfVars, hduVars>>

\* one pixel position is sent through both transforms
Transform ==
    /\ wpc \in {"built", "transformed"}
    /\ \E p \in WcsPixels :
          /\ w_pixel' = p
          /\ w_sky' = [wcs |-> WcsPixelToSky(w_wcs, p),
                       gwcs |-> GwcsPixelToSky(w_gwcs, p)]
    /\ wpc' = "transformed"
    /\ UNCHANGED <<w_shape, w_galactic, w_wcs, w_gwcs>>
    /\ UNCHANGED <<imgVars, psfVars, hduVars>>

EmptyTable == [colnames |-> <<>>, rows |-> <<>>]

ImgInit ==
    /\ pc = "idle"
    /\ fn = "none"
    /\ callerTable = EmptyTable
    /\ callerTable0 = EmptyTable
    /\ callerModel0 = Gaussian2D.par
    /\ shape = <<1, 2>>
    /\ oversample = 1
    /\ model = Gaussian2D
    /\ table = EmptyTable
    /\ params_to_set = <<>>
    /\ init_params = <<>>
    /\ row = 1
    /\ image = [px \in Pixels(<<1, 2>>) |-> ZeroPix]
    /\ exc = "none"
    /\ result = "none"

PsfInit ==
    /\ ppc = "idle"
    /\ args = [shape |-> PsfImageShape, psf_shape |-> <<1, 1>>, nsources |-> 1,
               min_separation |-> 0, border_size |-> <<>>,
               flux_range |-> <<2, 4>>]
    /\ psf_model = PlainPsf
    /\ psf_model0 = PsfPar0
    /\ psf_shape = <<1, 1>>
    /\ warned = FALSE
    /\ hshape = <<0, 0>>
    /\ xrange = <<0, 0>>
    /\ yrange = <<0, 0>>
    /\ xycoords = <<>>
    /\ gen_calls = 0
    /\ sources = [colnames |-> <<>>, cols |-> <<>>]
    /\ src = 1
    /\ data = [px \in Pixels(PsfImageShape) |-> 0]
    /\ perr = "none"
    /\ presult = "none"

HduInit ==
    /\ hpc = "idle"
    /\ hdu_data = [shape |-> <<>>]
    /\ hdu_wcs = None
    /\ header = Unset
    /\ hdu = None
    /\ herr = "none"

WcsInit ==
    /\ wpc = "idle"
    /\ w_shape = <<1, 1>>
    /\ w_galactic = FALSE
    /\ w_wcs = None
    /\ w_gwcs = None
    /\ w_pixel = <<0, 0>>
    /\ w_sky = None

Init == ImgInit /\ PsfInit /\ HduInit /\ WcsInit

\* the image functions: the renderer and its two wrappers
Next ==
    \/ CallRender
    \/ CallGaussian
    \/ CallPrf
    \/ Prepare
    \/ SetRowParams
    \/ Evaluate
    \/ EvaluateRaises
    \/ LoopDone
    \/ Restore
    \/ Return

Spec == Init /\ [][Next]_vars

\* make_test_psf_data
PsfNext ==
    \/ PsfCall
    \/ DefineShape
    \/ Border
    \/ Generate
    \/ BuildTable
    \/ PlaceSource
    \/ Finish

SpecPsf == Init /\ [][PsfNext]_vars

\* make_imagehdu
HduNext ==
    \/ HduCall
    \/ CheckNdim
    \/ BuildHeader
    \/ ReturnHdu

SpecHdu == Init /\ [][HduNext]_vars

\* make_wcs against make_gwcs
WcsNext ==
    \/ WcsCall
    \/ BuildWcs
    \/ BuildGwcs
    \/ Transform

SpecWcs == Init /\ [][WcsNext]_vars

---------------------------------------------------------------------------
(* Properties of the image functions *)

\* the sum over the rows of a table of what a model of class kind adds to
\* pixel px when its parameters are par(row)
SumOfSources(kind, rows, par(_), px, os) ==
    LET RECURSIVE Sum(_)
        Sum(k) == IF k = 0 THEN ZeroPix
                  ELSE PixAdd(Sum(k - 1),
                              PixelValue([kind |-> kind, view |-> TRUE,
                                          par |-> par(rows[k])],
                                         px[2], px[1], os))
    IN  Sum(Len(rows))

\* C1: when a call of make_model_sources_image ends, by return or by an
\* exception, every model parameter named by a table column has the value
\* it had when the call began.
C1_ParamsRestoredOnEveryExit ==
    (fn = "render" /\ pc \in {"returned", "raised"}) =>
        \A q \in Range(params_to_set) : model.par[q] = callerModel0[q]

\* C2: the renderer returns an image of the requested shape whose every
\* pixel is the sum over the table's rows of the model evaluated with the
\* row's values for the parameters that are columns and the pre-call values
\* for the others; other columns have no effect, and an empty table gives
\* zeros.
C2_ImageIsSumOfSources ==
    pc = "returned" =>
        LET par(source) ==
                [q \in ParamNames(model.kind) |->
                    IF HasCol(table, q) THEN source[q] ELSE callerModel0[q]]
        IN  /\ DOMAIN result = Pixels(shape)
            /\ \A px \in Pixels(shape) :
                  result[px] = SumOfSources(model.kind, table.rows, par, px,
                                            oversample)
            /\ table.rows = <<>> => \A px \in Pixels(shape) : result[px] = ZeroPix

\* two sources were rendered from a table that also has a column that is no
\* parameter, and one that is
C2_Witness ==
    /\ pc = "returned"
    /\ fn = "render"
    /\ Len(table.rows) = 2
    /\ HasCol(table, "id")
    /\ params_to_set # <<>>
    /\ \E px \in Pixels(shape) : result[px] # ZeroPix

\* C4: make_gaussian_sources_image renders every source with amplitude
\* flux / (2 pi x_stddev y_stddev) (a standard deviation of 1 for an absent
\* column) when there is a flux and no amplitude column, and with the
\* amplitude column, whatever the flux, when there are both.
C4_GaussianAmplitude ==
    (fn = "gauss" /\ pc = "returned" /\ HasCol(callerTable, "flux")) =>
        LET t == callerTable
            xstd(source) == IF HasCol(t, "x_stddev") THEN source.x_stddev ELSE Q(1)
            ystd(source) == IF HasCol(t, "y_stddev") THEN source.y_stddev ELSE Q(1)
            par(source) ==
                [q \in ParamNames("gauss") |->
                    IF q = "amplitude"
                    THEN IF HasCol(t, "amplitude") THEN source.amplitude
                         ELSE QDivTwoPi(QDiv(source.flux,
                                             QMul(xstd(source), ystd(source))))
                    ELSE IF HasCol(t, q) THEN source[q] ELSE Gaussian2D.par[q]]
        IN  \A px \in Pixels(shape) :
               result[px] = SumOfSources("gauss", t.rows, par, px, oversample)

\* sources given by flux alone, with one standard deviation column absent,
\* were rendered
C4_WitnessFluxOnly ==
    /\ fn = "gauss" /\ pc = "returned"
    /\ HasCol(callerTable, "flux") /\ ~HasCol(callerTable, "amplitude")
    /\ HasCol(callerTable, "x_stddev") /\ ~HasCol(callerTable, "y_stddev")
    /\ Len(callerTable.rows) = 2
    /\ \E i \in 1..2 : callerTable.rows[i].x_stddev = Q(2)

RenderImage(m, t, sh, os) ==
    LET ps == ParamsToSet(t.colnames, m.kind)
        RECURSIVE Loop(_, _, _)
        Loop(img, par, k) ==
            IF k > Len(t.rows) THEN img
            ELSE LET s == SetParams(par, t.rows[k], ps, 1)
                 IN  Loop(Accumulate(img, [m EXCEPT !.par = s.par], sh, os),
                          s.par, k + 1)
    IN  Loop([px \in Pixels(sh) |-> ZeroPix], m.par, 1)

\* the tables that differ from t in flux values only
FluxVariants(t) ==
    {[colnames |-> t.colnames, rows |-> rs] :
        rs \in {r \in [DOMAIN t.rows -> RowSet(t.colnames, FALSE)] :
                  \A i \in DOMAIN t.rows : \A c \in Range(t.colnames) :
                     c # "flux" => r[i][c] = t.rows[i][c]}}

\* C6: make_gaussian_prf_sources_image ignores flux when the table has both
\* a flux and an amplitude column: the image returned is the image of every
\* table that differs in flux values only.
C6_PrfFluxIgnoredWhenBoth ==
    (fn = "prf" /\ pc = "returned"
        /\ HasCol(callerTable, "flux") /\ HasCol(callerTable, "amplitude")) =>
        \A t2 \in FluxVariants(callerTable) :
            RenderImage(IntegratedGaussianPRF, PrfTable(t2).local, shape, 1)
                = result

---------------------------------------------------------------------------
(* Properties of make_test_psf_data *)

\* C3: after make_test_psf_data returns, the caller's psf_model has the
\* x_0, y_0 and flux it had when the call began.
C3_PsfModelRestored ==
    ppc = "done" => psf_model.par = psf_model0

\* the model's support, when it has data or a bounding box
HasSupport(m) == m.has_data \/ m.has_bbox
Support(m) == IF m.has_data THEN DataSupport(m) ELSE BboxSupport(m)

\* C7: once _define_psf_shape has run, the window is the per-axis minimum
\* of the requested shape and the support, with a warning, whenever the
\* request exceeds the support on at least one axis, and the requested
\* shape, without a warning, otherwise.
C7_WindowIsPerAxisMinimum ==
    ppc \notin {"idle", "called"} =>
        LET req == args.psf_shape
            sup == Support(psf_model)
            exceeds == HasSupport(psf_model)
                       /\ (req[1] > sup[1] \/ req[2] > sup[2])
        IN  /\ exceeds => /\ psf_shape = <<Min(req[1], sup[1]), Min(req[2], sup[2])>>
                          /\ warned
            /\ ~exceeds => psf_shape = req /\ ~warned

\* the table has as many x, y and flux as centres were generated, at most
\* nsources, and nsources of them when min_separation is 0; the generator
\* is called once
PsfTableRows ==
    ppc \in {"placing", "done"} =>
        /\ \A k \in 1..3 : Len(sources.cols[k]) = Len(xycoords)
        /\ Len(xycoords) <= args.nsources
        /\ args.min_separation = 0 => Len(xycoords) = args.nsources
        /\ gen_calls = 1

\* C8: the table returned has x, y and flux of one length n, the number of
\* centres generated, n <= nsources, n = nsources when min_separation is 0;
\* and a call that got fewer centres than nsources completes without
\* raising and without asking again.
C8_RowsAndCompletion ==
    /\ PsfTableRows
    /\ (ppc \in {"done", "raised"} /\ Len(xycoords) < args.nsources) =>
          ppc = "done" /\ gen_calls = 1

\* C9: no centre is within the border: the border given, or else half the
\* window size on each axis.
C9_CentresOutsideBorder ==
    ppc \in {"generated", "placing", "done", "raised"} =>
        LET by == IF args.border_size # <<>> THEN args.border_size[1]
                  ELSE psf_shape[1] \div 2
            bx == IF args.border_size # <<>> THEN args.border_size[2]
                  ELSE psf_shape[2] \div 2
        IN  \A i \in DOMAIN xycoords :
               /\ Res * bx <= xycoords[i][1]
               /\ xycoords[i][1] <= Res * (args.shape[2] - bx)
               /\ Res * by <= xycoords[i][2]
               /\ xycoords[i][2] <= Res * (args.shape[1] - by)

\* the part of C9 about a border that is given
PsfCentresInGivenBorder ==
    (ppc \in {"generated", "placing", "done", "raised"}
        /\ args.border_size # <<>>) =>
        \A i \in DOMAIN xycoords :
           /\ Res * args.border_size[2] <= xycoords[i][1]
           /\ xycoords[i][1] <= Res * (args.shape[2] - args.border_size[2])
           /\ Res * args.border_size[1] <= xycoords[i][2]
           /\ xycoords[i][2] <= Res * (args.shape[1] - args.border_size[1])

---------------------------------------------------------------------------
(* Properties of make_imagehdu *)

\* C10: make_imagehdu raises ValueError for data that is not 2D, before a
\* header or a container is built; for 2D data it returns a container of
\* that data, with the header of wcs, or without a header when wcs is None.
C10_ImageHduTwoDOnly ==
    /\ hpc = "raised" =>
          /\ Ndim(hdu_data) # 2
          /\ herr = "ValueError"
          /\ header = Unset
          /\ hdu = None
    /\ (hpc \notin {"idle", "called"} /\ Ndim(hdu_data) # 2) => hpc = "raised"
    /\ hpc = "returned" =>
          /\ Ndim(hdu_data) = 2
          /\ herr = "none"
          /\ hdu.data = hdu_data
          /\ hdu.header = IF hdu_wcs = None THEN None ELSE ToHeader(hdu_wcs)

\* a call with 3D data and a wcs has raised
C10_WitnessRaised ==
    /\ hpc = "raised"
    /\ Ndim(hdu_data) = 3
    /\ hdu_wcs # None

\* a 2D image was wrapped with the header of its wcs
HduReturnedWithHeader ==
    /\ hpc = "returned"
    /\ hdu_wcs # None
    /\ hdu.header = ToHeader(hdu_wcs)


---------------------------------------------------------------------------
(* Properties of make_wcs and make_gwcs *)

\* C11: for one shape and one frame choice, make_wcs and make_gwcs have the
\* same reference pixel, the same rotation/scale matrix, the same reference
\* sky value and a tangent-plane projection both, and every pixel position
\* has the same sky coordinates under both.
C11_BuildersEquivalent ==
    wpc = "transformed" =>
        /\ WcsRefPixel2(w_wcs) = GwcsRefPixel2(w_gwcs)
        /\ WcsRefPixel2(w_wcs) = <<w_shape[2], w_shape[1]>>
        /\ w_wcs.cd = w_gwcs.cd
        /\ w_wcs.crval = w_gwcs.crval
        /\ w_wcs.crval = <<"197.8925", "-1.36555556">>
        /\ ProjectionOf(w_wcs.ctype) = "TAN"
        /\ w_gwcs.projection = "TAN"
        /\ w_sky.wcs = w_sky.gwcs

\* the same, of the ICRS frame alone
BuildersEquivalentInIcrs ==
    (wpc = "transformed" /\ ~w_galactic) =>
        /\ WcsRefPixel2(w_wcs) = GwcsRefPixel2(w_gwcs)
        /\ w_wcs.cd = w_gwcs.cd
        /\ w_wcs.crval = w_gwcs.crval
        /\ ProjectionOf(w_wcs.ctype) = w_gwcs.projection
        /\ w_sky.wcs = w_sky.gwcs

\* in the Galactic frame the two agree on everything but the projection
BuildersDifferOnlyInProjection ==
    (wpc = "transformed" /\ w_galactic) =>
        /\ WcsRefPixel2(w_wcs) = GwcsRefPixel2(w_gwcs)
        /\ w_wcs.cd = w_gwcs.cd
        /\ w_wcs.crval = w_gwcs.crval
        /\ w_sky.wcs.frame = w_sky.gwcs.frame
        /\ ProjectionOf(w_wcs.ctype) = "CAR"
        /\ w_gwcs.projection = "TAN"


---------------------------------------------------------------------------
(* Properties of the placement loop and of the wrappers' tables *)

\* source k of the sources table, as model parameters
SourcePar(k) ==
    [x_0 |-> sources.cols[1][k], y_0 |-> sources.cols[2][k],
     flux |-> sources.cols[3][k]]

\* whether pixel index i lies in the window of small pixels centred at pos
\* (in units of 1/Res): pos - small/2 <= i < pos + small/2
InWindow(i, small, pos) ==
    /\ 2 * pos - small * Res <= 2 * Res * i
    /\ 2 * Res * i < 2 * pos + small * Res

\* whether pixel px = <<y, x>> lies in the psf_shape window of source k
InSourceWindow(px, k) ==
    /\ InWindow(px[1], psf_shape[1], SourcePar(k).y_0)
    /\ InWindow(px[2], psf_shape[2], SourcePar(k).x_0)

\* what the first n sources add up to at pixel px, each counted on its
\* window alone
WindowedSum(px, n) ==
    LET RECURSIVE Sum(_)
        Sum(k) == IF k = 0 THEN 0
                  ELSE Sum(k - 1)
                       + (IF InSourceWindow(px, k)
                          THEN PsfEval(SourcePar(k), px[2], px[1]) ELSE 0)
    IN  Sum(n)

\* C12: in the placement loop of make_test_psf_data the image holds, at
\* every pixel, the sum of the sources placed so far that have the pixel in
\* their psf_shape window: a source changes no pixel outside the
\* intersection of its window with the image, contributions of overlapping
\* windows add, the slices taken lie inside the image, and the window shape
\* is the one fixed before the loop.
C12_PlacementIsWindowedSum ==
    ppc \in {"placing", "done"} =>
        /\ DOMAIN data = Pixels(args.shape)
        /\ \A px \in DOMAIN data : data[px] = WindowedSum(px, src - 1)
        /\ psf_shape = DefinePsfShape(psf_model, args.psf_shape).shape
        /\ src <= Len(sources.cols[1]) =>
              \A ax \in 1..2 :
                 LET sl == AxisOverlap(args.shape[ax], psf_shape[ax],
                                       sources.cols[3 - ax][src])
                 IN  sl.ok => 0 <= sl.lo /\ sl.lo < sl.hi
                              /\ sl.hi <= args.shape[ax]

\* two sources were placed, a pixel lies in both windows, a pixel lies
\* outside the first window, and a window reaches over the image's edge
C12_Witness ==
    /\ ppc = "done"
    /\ src = 3
    /\ \E px \in DOMAIN data : InSourceWindow(px, 1) /\ InSourceWindow(px, 2)
    /\ \E px \in DOMAIN data : ~InSourceWindow(px, 1)
    /\ \E k \in 1..2 : 2 * SourcePar(k).x_0 - psf_shape[2] * Res < 0

\* C13: make_gaussian_sources_image and make_gaussian_prf_sources_image
\* leave the caller's source table with the columns and values it had when
\* the call began, at every point of the call and on every exit.
C13_CallerTableUntouched ==
    (fn \in {"gauss", "prf"} /\ pc # "idle") => callerTable = callerTable0

\* a call of the Gaussian wrapper that needed the derived amplitude column
\* returned: the renderer's table has the column and is not the caller's
C13_Witness ==
    /\ fn = "gauss"
    /\ pc = "returned"
    /\ HasCol(callerTable0, "flux") /\ ~HasCol(callerTable0, "amplitude")
    /\ Len(callerTable0.rows) > 0
    /\ HasCol(table, "amplitude")
    /\ table # callerTable

\* whether the image is at least as large as the window on each axis
ImageHoldsWindow ==
    args.shape[1] >= psf_shape[1] /\ args.shape[2] >= psf_shape[2]

\* C14: with border_size=None and an image at least as large as the window
\* on each axis, the placement loop of make_test_psf_data never ends with a
\* no-overlap error.
C14_NoOverlapNeverRaised ==
    (ppc = "raised" /\ args.border_size = <<>> /\ ImageHoldsWindow) =>
        perr # "NoOverlapError"

\* the same for windows of at least two pixels on each axis
NoOverlapOnlyForOnePixelWindows ==
    (ppc = "raised" /\ args.border_size = <<>> /\ ImageHoldsWindow
        /\ psf_shape[1] >= 2 /\ psf_shape[2] >= 2) =>
        perr # "NoOverlapError"

===========================================================================
